---- MODULE Spec2Model ----
(***************************************************************************)
(* A model of robotstxt-rs (src/src/parser.rs): the directive parser       *)
(* RobotsTxt::parse_with_domain, the resolver RobotsTxt::can_fetch and     *)
(* RobotsTxt::get_rule, the pattern matcher path_matches, and the fetch    *)
(* entry point RobotsTxt::from_url.                                        *)
(*                                                                         *)
(* A Rust string is a sequence of one-character strings; every character   *)
(* of the model is ASCII, so a byte offset is a character offset.  An      *)
(* Option is a sequence of length at most one: None is << >>.              *)
(***************************************************************************)
EXTENDS Integers, Sequences, FiniteSets, TLC

VARIABLES
    content,         \* parse_with_domain: content.lines(), a sequence of lines
    idx,             \* parse_with_domain: lines of content already processed
    pc,              \* "idle" | "parse" | "done" (the RobotsTxt has been returned)
    domain,          \* RobotsTxt.domain : Option<String>
    rules,           \* RobotsTxt.rules : HashMap<String, RobotRule>
    sitemaps,        \* RobotsTxt.sitemaps : Vec<String>
    comments,        \* RobotsTxt.comments : Vec<String>
    current_agents,  \* parse_with_domain: the local Vec<String>
    q_op,            \* the last query made: "none" | "can_fetch" | "get_rule"
    q_agent,         \* the last query's user_agent argument (Option)
    q_path,          \* the last query's path argument (Option)
    q_selected,      \* the rule can_fetch evaluated in the last query (Option)
    q_rule,          \* what get_rule returned, when it was the last query (Option)
    q_verdict,       \* what can_fetch returned, when it was the last query (Option)
    pm_path,         \* path_matches: the path argument
    pm_pattern,      \* path_matches: the pattern argument
    pm_pc,           \* path_matches: "idle" | "enter" | "loop" | "done"
    pm_parts,        \* path_matches: parts
    pm_i,            \* path_matches: the loop index i
    pm_pos,          \* path_matches: pos
    pm_result,       \* path_matches: the value returned (Option)
    f_pc,            \* from_url: "idle" | "send" | "text" | "done"
    f_url,           \* from_url: the url argument
    f_transport,     \* the network: "ok" | "connect_error" | "timeout" | "body_error"
    f_status,        \* the network: the HTTP status of the response
    f_body,          \* the network: the lines of the response body
    f_result         \* from_url: the Result returned (Option)

parseVars == <<content, idx, pc, domain, rules, sitemaps, comments, current_agents>>
queryVars == <<q_op, q_agent, q_path, q_selected, q_rule, q_verdict>>
matchVars == <<pm_path, pm_pattern, pm_pc, pm_parts, pm_i, pm_pos, pm_result>>
fetchVars == <<f_pc, f_url, f_transport, f_status, f_body, f_result>>
vars == <<parseVars, queryVars, matchVars, fetchVars>>

None == << >>
Some(x) == <<x>>

(***************************************************************************)
(* The std string operations the code calls.                               *)
(***************************************************************************)
UpperChars == <<"A","B","C","D","E","F","G","H","I","J","K","L","M",
                "N","O","P","Q","R","S","T","U","V","W","X","Y","Z">>
LowerChars == <<"a","b","c","d","e","f","g","h","i","j","k","l","m",
                "n","o","p","q","r","s","t","u","v","w","x","y","z">>

LowerChar(c) ==
    IF \E k \in DOMAIN UpperChars : UpperChars[k] = c
    THEN LowerChars[CHOOSE k \in DOMAIN UpperChars : UpperChars[k] = c]
    ELSE c

to_lowercase(s) == [k \in 1..Len(s) |-> LowerChar(s[k])]

IsWhitespace(c) == c \in {" ", "\t", "\r"}

RECURSIVE trim_start(_)
trim_start(s) ==
    IF s # << >> /\ IsWhitespace(Head(s)) THEN trim_start(Tail(s)) ELSE s

RECURSIVE trim_end(_)
trim_end(s) ==
    IF s # << >> /\ IsWhitespace(s[Len(s)])
    THEN trim_end(SubSeq(s, 1, Len(s) - 1))
    ELSE s

trim(s) == trim_end(trim_start(s))

starts_with(s, p) == Len(p) <= Len(s) /\ SubSeq(s, 1, Len(p)) = p

ends_with(s, p) ==
    Len(p) <= Len(s) /\ SubSeq(s, Len(s) - Len(p) + 1, Len(s)) = p

\* str::find: the offset (from 0) of the leftmost occurrence, None if there is none
find(s, p) ==
    LET at == {k \in 0..(Len(s) - Len(p)) : SubSeq(s, k + 1, k + Len(p)) = p}
    IN  IF at = {} THEN None
        ELSE Some(CHOOSE k \in at : \A j \in at : k <= j)

contains(s, p) == find(s, p) # None

\* str::split_once on a character: None, or the text before and after its
\* first occurrence
split_once(s, c) ==
    LET f == find(s, <<c>>)
    IN  IF f = None THEN None
        ELSE Some(<<SubSeq(s, 1, f[1]), SubSeq(s, f[1] + 2, Len(s))>>)

\* str::split on a character: n occurrences give n + 1 parts, none gives <<s>>
RECURSIVE split(_, _)
split(s, c) ==
    LET f == find(s, <<c>>)
    IN  IF f = None THEN <<s>>
        ELSE <<SubSeq(s, 1, f[1])>> \o split(SubSeq(s, f[1] + 2, Len(s)), c)

\* str::replace(c, ""): every occurrence of the character removed
RECURSIVE replace_with_empty(_, _)
replace_with_empty(s, c) ==
    IF s = << >> THEN << >>
    ELSE IF Head(s) = c THEN replace_with_empty(Tail(s), c)
    ELSE <<Head(s)>> \o replace_with_empty(Tail(s), c)

\* &s[pos..]: in range when pos <= s.len(), a panic otherwise
SliceInRange(s, pos) == pos <= Len(s)
SliceFrom(s, pos) == SubSeq(s, pos + 1, Len(s))

(***************************************************************************)
(* The directive names the parser matches on.                              *)
(***************************************************************************)
STR_user_agent == <<"u","s","e","r","-","a","g","e","n","t">>
STR_allow      == <<"a","l","l","o","w">>
STR_disallow   == <<"d","i","s","a","l","l","o","w">>
STR_sitemap    == <<"s","i","t","e","m","a","p">>
STAR           == <<"*">>

(***************************************************************************)
(* parse_with_domain.  ParseState is the four locals of the function:      *)
(* [rules, sitemaps, comments, current_agents].                            *)
(***************************************************************************)
EmptyRules == [k \in {} |-> << >>]

NewParseState ==
    [rules |-> EmptyRules, sitemaps |-> << >>, comments |-> << >>,
     current_agents |-> << >>]

NewRule(agent) == [user_agent |-> agent, allowed |-> << >>, disallowed |-> << >>]

\* HashMap::insert
MapInsert(m, k, v) == [x \in DOMAIN m \cup {k} |-> IF x = k THEN v ELSE m[x]]

\* the "user-agent" arm, inserting a fresh rule even when the token has one
OnUserAgent_Replace(st, value) ==
    LET agent == to_lowercase(value)
    IN  [st EXCEPT !.rules = MapInsert(st.rules, agent, NewRule(agent)),
                   !.current_agents = Append(st.current_agents, agent)]

\* the "user-agent" arm
OnUserAgent(st, value) ==
    LET agent == to_lowercase(value)
        rules1 == IF agent \notin DOMAIN st.rules
                  THEN MapInsert(st.rules, agent, NewRule(agent))
                  ELSE st.rules
    IN  [st EXCEPT !.rules = rules1,
                   !.current_agents = Append(st.current_agents, agent)]

\* for agent in &current_agents { if let Some(rule) = rules.get_mut(agent)
\*     { rule.allowed.push(value.clone()) } }, from the k-th agent on
RECURSIVE PushAllowed(_, _, _, _)
PushAllowed(rs, agents, k, value) ==
    IF k > Len(agents) THEN rs
    ELSE LET agent == agents[k]
             rs1 == IF agent \in DOMAIN rs
                    THEN [rs EXCEPT ![agent].allowed = Append(@, value)]
                    ELSE rs
         IN  PushAllowed(rs1, agents, k + 1, value)

RECURSIVE PushDisallowed(_, _, _, _)
PushDisallowed(rs, agents, k, value) ==
    IF k > Len(agents) THEN rs
    ELSE LET agent == agents[k]
             rs1 == IF agent \in DOMAIN rs
                    THEN [rs EXCEPT ![agent].disallowed = Append(@, value)]
                    ELSE rs
         IN  PushDisallowed(rs1, agents, k + 1, value)

\* the "allow" arm
OnAllow(st, value) ==
    [st EXCEPT !.rules = PushAllowed(st.rules, st.current_agents, 1, value)]

\* the "disallow" arm
OnDisallow(st, value) ==
    [st EXCEPT !.rules = PushDisallowed(st.rules, st.current_agents, 1, value)]

\* the "sitemap" arm without current_agents.clear()
OnSitemap_KeepAgents(st, value) ==
    [st EXCEPT !.sitemaps = Append(st.sitemaps, value)]

\* the "sitemap" arm
OnSitemap(st, value) ==
    [st EXCEPT !.sitemaps = Append(st.sitemaps, value),
               !.current_agents = << >>]

\* match directive.as_str() { ... }
Dispatch(st, directive, value) ==
    CASE directive = STR_user_agent -> OnUserAgent(st, value)
      [] directive = STR_allow      -> OnAllow(st, value)
      [] directive = STR_disallow   -> OnDisallow(st, value)
      [] directive = STR_sitemap    -> OnSitemap(st, value)
      [] OTHER                      -> st

\* the comment branch: comments.push(line[1..].trim().to_string())
OnComment(st, line) ==
    [st EXCEPT !.comments = Append(st.comments, trim(Tail(line)))]

\* the loop body with an empty line ending the user-agent group
ProcessLine_BlankEndsGroup(st, raw) ==
    LET line == trim(raw)
    IN  IF starts_with(line, <<"#">>) THEN OnComment(st, line)
        ELSE IF line = << >> THEN [st EXCEPT !.current_agents = << >>]
        ELSE LET sp == split_once(line, ":")
             IN  IF sp = None THEN st
                 ELSE Dispatch(st, to_lowercase(trim(sp[1][1])), trim(sp[1][2]))

\* the body of `for line in content.lines()`
ProcessLine(st, raw) ==
    LET line == trim(raw)
    IN  IF starts_with(line, <<"#">>) THEN OnComment(st, line)
        ELSE IF line = << >> THEN st
        ELSE LET sp == split_once(line, ":")
             IN  IF sp = None THEN st
                 ELSE Dispatch(st, to_lowercase(trim(sp[1][1])), trim(sp[1][2]))

\* the whole loop, from the k-th line on
RECURSIVE ParseFrom(_, _, _)
ParseFrom(st, lines, k) ==
    IF k > Len(lines) THEN st
    ELSE ParseFrom(ProcessLine(st, lines[k]), lines, k + 1)

\* parse_with_domain(content, domain): the RobotsTxt it returns
parse_with_domain(lines, dom) ==
    LET st == ParseFrom(NewParseState, lines, 1)
    IN  [domain |-> dom, rules |-> st.rules, sitemaps |-> st.sitemaps,
         comments |-> st.comments]

(***************************************************************************)
(* path_matches.  A result is [panic, value]: panic is TRUE when the call  *)
(* took a slice out of range (Rust aborts the call), else value is the     *)
(* boolean returned.                                                       *)
(***************************************************************************)
Returned(b) == [panic |-> FALSE, value |-> b]
Panicked == [panic |-> TRUE, value |-> FALSE]

\* the `$` branch matching a prefix instead of the whole path
MatchAnchored_Prefix(path, pattern) ==
    LET stripped == SubSeq(pattern, 1, Len(pattern) - 1)
    IN  IF contains(stripped, STAR)
        THEN starts_with(path, replace_with_empty(stripped, "*"))
        ELSE starts_with(path, stripped)

\* the branch `if pattern.ends_with('$')`
MatchAnchored(path, pattern) ==
    LET stripped == SubSeq(pattern, 1, Len(pattern) - 1)
    IN  IF contains(stripped, STAR)
        THEN path = replace_with_empty(stripped, "*")
        ELSE path = stripped

\* the branch `if !pattern.contains('*')`
MatchPrefix(path, pattern) == starts_with(path, pattern)

\* i == 0: "First part must be at the start"
ScanFirst(path, part, pos) ==
    IF ~starts_with(SliceFrom(path, pos), part)
    THEN [next |-> "false", pos |-> pos]
    ELSE [next |-> "continue", pos |-> pos + Len(part)]

\* the last part required at the end of the path: path[pos..].ends_with(part)
ScanLast_AtEnd(path, part, pos) ==
    IF ~ends_with(SliceFrom(path, pos), part)
    THEN [next |-> "false", pos |-> pos]
    ELSE [next |-> "continue", pos |-> pos]

\* i == parts.len() - 1: path[pos..].contains(part)
ScanLast(path, part, pos) ==
    IF ~contains(SliceFrom(path, pos), part)
    THEN [next |-> "false", pos |-> pos]
    ELSE [next |-> "continue", pos |-> pos]

\* a middle part, with pos moved one past the end of the occurrence
ScanMiddle_OffByOne(path, part, pos) ==
    LET found == find(SliceFrom(path, pos), part)
    IN  IF found # None
        THEN [next |-> "continue", pos |-> pos + found[1] + Len(part) + 1]
        ELSE [next |-> "false", pos |-> pos]

\* a middle part: path[pos..].find(part)
ScanMiddle(path, part, pos) ==
    LET found == find(SliceFrom(path, pos), part)
    IN  IF found # None
        THEN [next |-> "continue", pos |-> pos + found[1] + Len(part)]
        ELSE [next |-> "false", pos |-> pos]

\* one iteration of `for (i, part) in parts.iter().enumerate()`; i counts from 0
ScanStep(path, parts, i, pos) ==
    IF ~SliceInRange(path, pos) THEN [next |-> "panic", pos |-> pos]
    ELSE IF i = 0 THEN ScanFirst(path, parts[i + 1], pos)
    ELSE IF i = Len(parts) - 1 THEN ScanLast(path, parts[i + 1], pos)
    ELSE ScanMiddle(path, parts[i + 1], pos)

\* the loop from iteration i on, then `true`
RECURSIVE ScanFrom(_, _, _, _)
ScanFrom(path, parts, i, pos) ==
    IF i >= Len(parts) THEN Returned(TRUE)
    ELSE LET s == ScanStep(path, parts, i, pos)
         IN  CASE s.next = "panic" -> Panicked
               [] s.next = "false" -> Returned(FALSE)
               [] OTHER            -> ScanFrom(path, parts, i + 1, s.pos)

path_matches(path, pattern) ==
    IF ends_with(pattern, <<"$">>) THEN Returned(MatchAnchored(path, pattern))
    ELSE IF ~contains(pattern, STAR) THEN Returned(MatchPrefix(path, pattern))
    ELSE ScanFrom(path, split(pattern, "*"), 0, 0)

(***************************************************************************)
(* can_fetch and get_rule.                                                 *)
(***************************************************************************)
\* HashMap::get
MapGet(m, k) == IF k \in DOMAIN m THEN Some(m[k]) ELSE None

\* the selection of can_fetch trying the wildcard before the exact token
CanFetchSelect_WildcardFirst(rs, user_agent) ==
    LET ua == to_lowercase(user_agent)
    IN  IF MapGet(rs, STAR) # None THEN MapGet(rs, STAR)
        ELSE IF MapGet(rs, ua) # None THEN MapGet(rs, ua)
        ELSE None

\* can_fetch: `let rule = if let Some(rule) = ... else { return true }`
CanFetchSelect(rs, user_agent) ==
    LET ua == to_lowercase(user_agent)
    IN  IF MapGet(rs, ua) # None THEN MapGet(rs, ua)
        ELSE IF MapGet(rs, STAR) # None THEN MapGet(rs, STAR)
        ELSE None

\* get_rule: self.rules.get(&user_agent).or_else(|| self.rules.get("*"))
get_rule(rs, user_agent) ==
    LET ua == to_lowercase(user_agent)
        exact == MapGet(rs, ua)
    IN  IF exact # None THEN exact ELSE MapGet(rs, STAR)

\* allowed.len() >= disallowed.len()
MoreSpecific_OrEqual(allowed, disallowed) == Len(allowed) >= Len(disallowed)

\* allowed.len() > disallowed.len()
MoreSpecific(allowed, disallowed) == Len(allowed) > Len(disallowed)

\* the inner `for allowed in &rule.allowed`, from the k-th entry, then `false`
RECURSIVE OverrideLoop(_, _, _, _)
OverrideLoop(rule, path, disallowed, k) ==
    IF k > Len(rule.allowed) THEN Returned(FALSE)
    ELSE LET allowed == rule.allowed[k]
             m == path_matches(path, allowed)
         IN  IF m.panic THEN Panicked
             ELSE IF m.value /\ MoreSpecific(allowed, disallowed)
             THEN Returned(TRUE)
             ELSE OverrideLoop(rule, path, disallowed, k + 1)

\* the final `for allowed in &rule.allowed`, from the k-th entry, then `false`
RECURSIVE AllowLoop(_, _, _)
AllowLoop(rule, path, k) ==
    IF k > Len(rule.allowed) THEN Returned(FALSE)
    ELSE LET m == path_matches(path, rule.allowed[k])
         IN  IF m.panic THEN Panicked
             ELSE IF m.value THEN Returned(TRUE)
             ELSE AllowLoop(rule, path, k + 1)

\* after the disallow loop: "If not explicitly disallowed, check allowed rules"
AllowPhase(rule, path) ==
    IF rule.allowed = << >> THEN Returned(TRUE) ELSE AllowLoop(rule, path, 1)

\* whether the disallow loop skips an entry
SkipDisallowed(disallowed) == disallowed = << >>

\* `for disallowed in &rule.disallowed`, from the k-th entry, then the rest
RECURSIVE DisallowLoop(_, _, _)
DisallowLoop(rule, path, k) ==
    IF k > Len(rule.disallowed) THEN AllowPhase(rule, path)
    ELSE LET disallowed == rule.disallowed[k]
         IN  IF SkipDisallowed(disallowed) THEN DisallowLoop(rule, path, k + 1)
             ELSE LET m == path_matches(path, disallowed)
                  IN  IF m.panic THEN Panicked
                      ELSE IF m.value THEN OverrideLoop(rule, path, disallowed, 1)
                      ELSE DisallowLoop(rule, path, k + 1)

\* can_fetch from line 202 on, for the selected rule
EvaluateRule(rule, path) == DisallowLoop(rule, path, 1)

can_fetch(rs, user_agent, path) ==
    LET sel == CanFetchSelect(rs, user_agent)
    IN  IF sel = None THEN Returned(TRUE) ELSE EvaluateRule(sel[1], path)

(***************************************************************************)
(* extract_domain and from_url.                                            *)
(***************************************************************************)
STR_https == <<"h","t","t","p","s",":","/","/">>
STR_http  == <<"h","t","t","p",":","/","/">>

\* str::strip_prefix
strip_prefix(s, p) ==
    IF starts_with(s, p) THEN Some(SubSeq(s, Len(p) + 1, Len(s))) ELSE None

extract_domain(url) ==
    LET u0 == trim(url)
        u1 == IF strip_prefix(u0, STR_https) # None THEN strip_prefix(u0, STR_https)[1]
              ELSE IF strip_prefix(u0, STR_http) # None THEN strip_prefix(u0, STR_http)[1]
              ELSE u0
        d1 == split(u1, "/")[1]
    IN  split(d1, ":")[1]

Ok(v) == [kind |-> "Ok", value |-> v]
Err(e) == [kind |-> "Err", value |-> e]

\* client.get(url).send().await : Err when no response arrives, else the
\* response whatever its status
SendResult(transport, status) ==
    IF transport \in {"connect_error", "timeout"} THEN Err(transport) ELSE Ok(status)

\* response.text().await : Err when the body cannot be read, else the body
TextResult(transport, body) ==
    IF transport = "body_error" THEN Err(transport) ELSE Ok(body)

\* lines 161-164, once the content is there
FromUrlParse(url, body) == Ok(parse_with_domain(body, Some(extract_domain(url))))

(***************************************************************************)
(* The inputs of the parser specification.                                 *)
(***************************************************************************)
MaxLines == 4

LINE_ua_star  == <<"U","s","e","r","-","a","g","e","n","t",":"," ","*">>
LINE_ua_G     == <<"U","s","e","r","-","A","g","e","n","t",":","G">>
LINE_dis_a    == <<"D","i","s","a","l","l","o","w",":"," ","/","a">>
LINE_dis_wild == <<" ","d","i","s","a","l","l","o","w"," ",":","/","*","b","*","a"," ">>
LINE_allow_ab == <<"A","l","l","o","w",":"," ","/","a","/","b">>
LINE_sitemap  == <<"S","i","t","e","m","a","p",":"," ","h",":","s">>
LINE_comment  == <<"#"," ","c">>
LINE_unknown  == <<"C","r","a","w","l","-","d","e","l","a","y",":"," ","1">>
LINE_blank    == <<" ","\t">>
LINE_nocolon  == <<" ","j","u","n","k">>
LINE_comment_dir == <<" ","#","D","i","s","a","l","l","o","w",":"," ","/","a"," ">>

Lines ==
    {LINE_ua_star, LINE_ua_G, LINE_dis_a, LINE_dis_wild, LINE_allow_ab,
     LINE_sitemap, LINE_comment, LINE_unknown}

Contents == UNION {[1..n -> Lines] : n \in 0..MaxLines}

QueryAgents == {<<"G">>, <<"x">>}
QueryPaths == {<<"/","a","/","b">>, <<"/","b","/","a">>}

IdleQuery ==
    /\ q_op = "none"
    /\ q_agent = None
    /\ q_path = None
    /\ q_selected = None
    /\ q_rule = None
    /\ q_verdict = None

IdleMatch ==
    /\ pm_path = << >>
    /\ pm_pattern = << >>
    /\ pm_pc = "idle"
    /\ pm_parts = << >>
    /\ pm_i = 0
    /\ pm_pos = 0
    /\ pm_result = None

IdleFetch ==
    /\ f_pc = "idle"
    /\ f_url = << >>
    /\ f_transport = "ok"
    /\ f_status = 0
    /\ f_body = << >>
    /\ f_result = None

(***************************************************************************)
(* Spec: RobotsTxt::parse(content), one line per step, then any number of  *)
(* can_fetch and get_rule calls on the RobotsTxt returned.                 *)
(***************************************************************************)
Init ==
    /\ content \in Contents
    /\ idx = 0
    /\ pc = "parse"
    /\ domain = None
    /\ rules = EmptyRules
    /\ sitemaps = << >>
    /\ comments = << >>
    /\ current_agents = << >>
    /\ IdleQuery
    /\ IdleMatch
    /\ IdleFetch

Locals ==
    [rules |-> rules, sitemaps |-> sitemaps, comments |-> comments,
     current_agents |-> current_agents]

\* one iteration of `for line in content.lines()`
ParseLine ==
    /\ pc = "parse"
    /\ idx < Len(content)
    /\ LET st == ProcessLine(Locals, content[idx + 1])
       IN  /\ rules' = st.rules
           /\ sitemaps' = st.sitemaps
           /\ comments' = st.comments
           /\ current_agents' = st.current_agents
    /\ idx' = idx + 1
    /\ UNCHANGED <<content, pc, domain, queryVars, matchVars, fetchVars>>

\* the loop is over: RobotsTxt { domain, rules, sitemaps, comments }
ParseReturn ==
    /\ pc = "parse"
    /\ idx = Len(content)
    /\ pc' = "done"
    /\ UNCHANGED <<content, idx, domain, rules, sitemaps, comments,
                   current_agents, queryVars, matchVars, fetchVars>>

\* robots.can_fetch(user_agent, path)
CanFetchCall ==
    /\ pc = "done"
    /\ \E user_agent \in QueryAgents, path \in QueryPaths :
          /\ q_op' = "can_fetch"
          /\ q_agent' = Some(user_agent)
          /\ q_path' = Some(path)
          /\ q_selected' = CanFetchSelect(rules, user_agent)
          /\ q_rule' = None
          /\ q_verdict' = Some(can_fetch(rules, user_agent, path))
    /\ UNCHANGED <<parseVars, matchVars, fetchVars>>

\* robots.get_rule(user_agent)
GetRuleCall ==
    /\ pc = "done"
    /\ \E user_agent \in QueryAgents :
          /\ q_op' = "get_rule"
          /\ q_agent' = Some(user_agent)
          /\ q_path' = None
          /\ q_selected' = None
          /\ q_rule' = get_rule(rules, user_agent)
          /\ q_verdict' = None
    /\ UNCHANGED <<parseVars, matchVars, fetchVars>>

Next == ParseLine \/ ParseReturn \/ CanFetchCall \/ GetRuleCall

Spec == Init /\ [][Next]_vars

(***************************************************************************)
(* What each input line says, read off the text by hand: the directive it  *)
(* carries and that directive's value (for a User-agent line, the agent    *)
(* token).  The properties below are stated against this reading.          *)
(***************************************************************************)
LineKind(l) ==
    CASE l \in {LINE_ua_star, LINE_ua_G}    -> "user-agent"
      [] l \in {LINE_dis_a, LINE_dis_wild}  -> "disallow"
      [] l = LINE_allow_ab                  -> "allow"
      [] l = LINE_sitemap                   -> "sitemap"
      [] l \in {LINE_comment, LINE_comment_dir} -> "comment"
      [] OTHER                              -> "other"

LineValue(l) ==
    CASE l = LINE_ua_star  -> <<"*">>
      [] l = LINE_ua_G     -> <<"g">>
      [] l = LINE_dis_a    -> <<"/","a">>
      [] l = LINE_dis_wild -> <<"/","*","b","*","a">>
      [] l = LINE_allow_ab -> <<"/","a","/","b">>
      [] l = LINE_sitemap  -> <<"h",":","s">>
      [] l = LINE_comment  -> <<"c">>
      [] l = LINE_comment_dir -> <<"D","i","s","a","l","l","o","w",":"," ","/","a">>
      [] OTHER             -> << >>

IsPatternLine(l) == LineKind(l) \in {"allow", "disallow"}

\* a step of the parser that processes the next line of the input
AtLine == pc = "parse" /\ idx < Len(content)

IsPrefix(s, t) == Len(s) <= Len(t) /\ SubSeq(t, 1, Len(s)) = s

(***************************************************************************)
(* C3.  A User-agent line that follows an Allow or Disallow line starts a  *)
(* new group: the agents active before it are no longer active, so an      *)
(* Allow/Disallow line changes only the rules of the agents declared by    *)
(* the latest run of consecutive User-agent lines.  ClaimedGroup is that   *)
(* grouping: the agents of the group open after the first k lines.         *)
(***************************************************************************)
RECURSIVE ClaimedGroup(_, _)
ClaimedGroup(lines, k) ==
    IF k = 0 THEN [agents |-> {}, open |-> FALSE]
    ELSE LET prev == ClaimedGroup(lines, k - 1)
             kind == LineKind(lines[k])
         IN  CASE kind = "user-agent" ->
                    [agents |-> (IF prev.open THEN prev.agents ELSE {})
                                    \cup {LineValue(lines[k])},
                     open |-> TRUE]
               [] kind \in {"allow", "disallow"} ->
                    [agents |-> prev.agents, open |-> FALSE]
               [] kind = "sitemap" -> [agents |-> {}, open |-> FALSE]
               [] OTHER -> prev

C3_GroupBoundary ==
    [][(AtLine /\ IsPatternLine(content[idx + 1]))
          => \A a \in DOMAIN rules :
                rules'[a] # rules[a] => a \in ClaimedGroup(content, idx).agents]_vars

(***************************************************************************)
(* C4.  Every rule is stored under the key equal to its own lowercase      *)
(* user_agent; a step never removes a rule, never changes its user_agent   *)
(* and only extends its allowed and disallowed sequences at the end; and   *)
(* two blocks `User-agent: A`, `Disallow: v1` ... `User-agent: A`,         *)
(* `Disallow: v2` leave v1 and v2 in A's disallowed, v1 before v2.         *)
(***************************************************************************)
IsLowercase(s) == \A i \in 1..Len(s) : \A u \in DOMAIN UpperChars : s[i] # UpperChars[u]

C4_Keys ==
    \A k \in DOMAIN rules : rules[k].user_agent = k /\ IsLowercase(k)

\* lines p, p+1 and q, q+1 are two blocks for one agent, each with a Disallow
TwoBlocks(p, q) ==
    /\ p + 1 < q
    /\ q + 1 <= idx
    /\ LineKind(content[p]) = "user-agent"
    /\ LineKind(content[q]) = "user-agent"
    /\ LineValue(content[p]) = LineValue(content[q])
    /\ LineKind(content[p + 1]) = "disallow"
    /\ LineKind(content[q + 1]) = "disallow"

C4_BothKept ==
    \A p, q \in 1..idx :
        TwoBlocks(p, q) =>
            /\ LineValue(content[p]) \in DOMAIN rules
            /\ LET d == rules[LineValue(content[p])].disallowed
               IN  \E m, n \in 1..Len(d) :
                      /\ m < n
                      /\ d[m] = LineValue(content[p + 1])
                      /\ d[n] = LineValue(content[q + 1])

C4_AppendOnly ==
    \A k \in DOMAIN rules :
        /\ k \in DOMAIN rules'
        /\ rules'[k].user_agent = rules[k].user_agent
        /\ IsPrefix(rules[k].allowed, rules'[k].allowed)
        /\ IsPrefix(rules[k].disallowed, rules'[k].disallowed)

C4_Accumulates == [](C4_Keys /\ C4_BothKept) /\ [][C4_AppendOnly]_vars

C4_Witness ==
    \E p, q \in 1..idx :
        /\ TwoBlocks(p, q)
        /\ LineValue(content[p + 1]) # LineValue(content[q + 1])
        /\ Len(rules[LineValue(content[p])].disallowed) >= 2

(***************************************************************************)
(* C5.  A Sitemap line appends its value to sitemaps and clears the        *)
(* active-agent list, whether or not an agent is active; sitemaps is the   *)
(* values of the Sitemap lines read so far, in order, duplicates kept.  An *)
(* Allow/Disallow line with no User-agent line since the last Sitemap line *)
(* (or since the start) changes no rule.                                   *)
(***************************************************************************)
RECURSIVE SitemapValues(_, _)
SitemapValues(lines, k) ==
    IF k = 0 THEN << >>
    ELSE IF LineKind(lines[k]) = "sitemap"
    THEN Append(SitemapValues(lines, k - 1), LineValue(lines[k]))
    ELSE SitemapValues(lines, k - 1)

\* no User-agent line among the first k lines, or a Sitemap line after the last
NoAgentSince(lines, k) ==
    \A j \in 1..k :
        LineKind(lines[j]) = "user-agent"
            => \E m \in (j + 1)..k : LineKind(lines[m]) = "sitemap"

C5_State ==
    /\ pc \in {"parse", "done"} => sitemaps = SitemapValues(content, idx)
    /\ (pc = "parse" /\ NoAgentSince(content, idx)) => current_agents = << >>

C5_Step ==
    AtLine =>
        LET l == content[idx + 1]
        IN  /\ LineKind(l) = "sitemap" =>
                /\ sitemaps' = Append(sitemaps, LineValue(l))
                /\ current_agents' = << >>
                /\ rules' = rules
            /\ (IsPatternLine(l) /\ current_agents = << >>) => rules' = rules
            /\ (IsPatternLine(l) /\ NoAgentSince(content, idx)) => rules' = rules

C5_SitemapEndsGroup == []C5_State /\ [][C5_Step]_vars

\* Scenario E: an agent, a Sitemap line, then a Disallow line that is dropped
C5_Witness ==
    \E j, m, k \in 1..idx :
        /\ j < m
        /\ m < k
        /\ LineKind(content[j]) = "user-agent"
        /\ LineKind(content[m]) = "sitemap"
        /\ LineKind(content[k]) = "disallow"
        /\ NoAgentSince(content, k - 1)
        /\ current_agents = << >>
        /\ rules[LineValue(content[j])].disallowed = << >>
        /\ Len(sitemaps) >= 1

(***************************************************************************)
(* C6.  parse is total: it reads each line of the input once, in order,    *)
(* and returns after the last line (idx never passes the end); the empty   *)
(* input gives a RobotsTxt with no rules, sitemaps or comments; and        *)
(* can_fetch returns a boolean: no call of path_matches it makes takes a   *)
(* slice of the path out of range.                                         *)
(***************************************************************************)
C6_State ==
    /\ pc \in {"parse", "done"}
    /\ idx \in 0..Len(content)
    /\ pc = "done" => idx = Len(content)
    /\ (pc = "done" /\ content = << >>) =>
          (DOMAIN rules = {} /\ sitemaps = << >> /\ comments = << >>)
    /\ q_op = "can_fetch" =>
          (q_verdict # None /\ ~q_verdict[1].panic /\ q_verdict[1].value \in BOOLEAN)

C6_Step ==
    pc = "parse" =>
        /\ content' = content
        /\ \/ pc' = "parse" /\ idx' = idx + 1
           \/ pc' = "done" /\ idx' = idx /\ idx = Len(content)
           \/ UNCHANGED vars

C6_Total == []C6_State /\ [][C6_Step]_vars

\* a query whose wildcard scan ends with pos at the very end of the path
C6_Witness ==
    /\ pc = "done"
    /\ q_op = "can_fetch"
    /\ q_path = Some(<<"/","a","/","b">>)
    /\ q_selected # None
    /\ \E k \in 1..Len(q_selected[1].disallowed) :
          /\ q_selected[1].disallowed[k] = <<"/","*","b","*","a">>
          /\ \A j \in 1..(k - 1) :
                ~path_matches(q_path[1], q_selected[1].disallowed[j]).value
    /\ q_verdict = Some(Returned(TRUE))

(***************************************************************************)
(* C10.  The active-agent list is a set, so an Allow/Disallow line appends *)
(* its value exactly once to the sequence of each active agent: a step on  *)
(* such a line leaves each rule's sequence as it was or with the value     *)
(* appended once.                                                          *)
(***************************************************************************)
C10_Once ==
    (AtLine /\ IsPatternLine(content[idx + 1])) =>
        LET l == content[idx + 1]
        IN  \A a \in DOMAIN rules :
               /\ LineKind(l) = "disallow" =>
                     rules'[a].disallowed \in
                        {rules[a].disallowed, Append(rules[a].disallowed, LineValue(l))}
               /\ LineKind(l) = "allow" =>
                     rules'[a].allowed \in
                        {rules[a].allowed, Append(rules[a].allowed, LineValue(l))}

C10_ActiveIsSet == [][C10_Once]_vars

(***************************************************************************)
(* SpecResolve: can_fetch and get_rule on a RobotsTxt drawn from a bounded *)
(* set.  The rules are those parse returns for the input that gives each   *)
(* agent a block of its own, the blocks separated by a Sitemap line:       *)
(* every key is a lowercase token, every rule is stored under its own      *)
(* user_agent, and the document holds at most MaxEntries patterns.         *)
(***************************************************************************)
MaxEntries == 3

TOKEN_g == <<"g">>

ResolveTokens == {STAR, TOKEN_g}

ResolvePatterns ==
    {<< >>, <<"/","a">>, <<"/","a","/","b">>, <<"/","*","a">>}

SITEMAP_value == <<"h",":","s">>

InitResolve ==
    /\ content = << >>
    /\ idx = 0
    /\ pc = "done"
    /\ domain = None
    /\ comments = << >>
    /\ current_agents = << >>
    /\ \E keys \in SUBSET ResolveTokens :
       \E na, nd, ma, md \in 0..MaxEntries :
          /\ na + nd + ma + md <= MaxEntries
          /\ TOKEN_g \notin keys => na + nd = 0
          /\ STAR \notin keys => ma + md = 0
          /\ \E ga \in [1..na -> ResolvePatterns], gd \in [1..nd -> ResolvePatterns],
                sa \in [1..ma -> ResolvePatterns], sd \in [1..md -> ResolvePatterns] :
                /\ rules = [k \in keys |->
                              [user_agent |-> k,
                               allowed |-> IF k = TOKEN_g THEN ga ELSE sa,
                               disallowed |-> IF k = TOKEN_g THEN gd ELSE sd]]
                /\ sitemaps = IF keys = ResolveTokens THEN <<SITEMAP_value>> ELSE << >>
    /\ IdleQuery
    /\ IdleMatch
    /\ IdleFetch

NextResolve == CanFetchCall \/ GetRuleCall

SpecResolve == InitResolve /\ [][NextResolve]_vars

\* the token a query agent names, read off the agent string by hand
AgentToken(agent) ==
    CASE agent = <<"G">> -> TOKEN_g
      [] OTHER           -> agent

(***************************************************************************)
(* C1.  Rule selection: with the agent lowercased, the rule stored under   *)
(* exactly that token is the one used, whatever the `*` rule holds; else   *)
(* the `*` rule; else none, and then get_rule returns None and can_fetch   *)
(* returns true.  can_fetch evaluates the rule get_rule returns.           *)
(***************************************************************************)
ClaimedRule(agent) ==
    IF AgentToken(agent) \in DOMAIN rules THEN Some(rules[AgentToken(agent)])
    ELSE IF STAR \in DOMAIN rules THEN Some(rules[STAR])
    ELSE None

C1_RuleSelection ==
    /\ q_op = "get_rule" => q_rule = ClaimedRule(q_agent[1])
    /\ q_op = "can_fetch" =>
          /\ q_selected = ClaimedRule(q_agent[1])
          /\ q_selected = get_rule(rules, q_agent[1])
          /\ q_selected = None => q_verdict = Some(Returned(TRUE))
          /\ q_selected # None =>
                q_verdict = Some(EvaluateRule(ClaimedRule(q_agent[1])[1], q_path[1]))

\* both rules exist and decide the path differently; the agent's own is used
C1_Witness ==
    /\ q_op = "can_fetch"
    /\ q_agent = Some(<<"G">>)
    /\ DOMAIN rules = ResolveTokens
    /\ q_selected = Some(rules[TOKEN_g])
    /\ q_verdict = Some(Returned(FALSE))
    /\ EvaluateRule(rules[STAR], q_path[1]) = Returned(TRUE)

(***************************************************************************)
(* C2.  The verdict for the selected rule: with d the first non-empty      *)
(* entry of disallowed that matches the path, the verdict is true iff some *)
(* entry of allowed matches the path and is strictly longer than d; with   *)
(* no such d it is true iff allowed is empty or some entry of allowed      *)
(* matches.  Removing the empty entries of disallowed leaves the verdict   *)
(* unchanged.                                                              *)
(***************************************************************************)
Matches(path, pattern) == path_matches(path, pattern).value

DenyingEntries(rule, path) ==
    {k \in 1..Len(rule.disallowed) :
        rule.disallowed[k] # << >> /\ Matches(path, rule.disallowed[k])}

ClaimedVerdict(rule, path) ==
    LET D == DenyingEntries(rule, path)
    IN  IF D # {}
        THEN LET d == rule.disallowed[CHOOSE k \in D : \A j \in D : k <= j]
             IN  \E k \in 1..Len(rule.allowed) :
                    /\ Matches(path, rule.allowed[k])
                    /\ Len(rule.allowed[k]) > Len(d)
        ELSE \/ rule.allowed = << >>
             \/ \E k \in 1..Len(rule.allowed) : Matches(path, rule.allowed[k])

NonEmptyPattern(p) == p # << >>

WithoutEmptyDisallows(rule) ==
    [rule EXCEPT !.disallowed = SelectSeq(rule.disallowed, NonEmptyPattern)]

C2_Verdict ==
    (q_op = "can_fetch" /\ q_selected # None) =>
        /\ q_verdict = Some(Returned(ClaimedVerdict(q_selected[1], q_path[1])))
        /\ q_verdict =
              Some(Returned(ClaimedVerdict(WithoutEmptyDisallows(q_selected[1]), q_path[1])))

\* an empty disallow entry, then a matching one that a matching allow entry
\* of the same length does not override
C2_Witness ==
    /\ q_op = "can_fetch"
    /\ q_selected # None
    /\ Len(q_selected[1].disallowed) = 2
    /\ q_selected[1].disallowed[1] = << >>
    /\ Matches(q_path[1], q_selected[1].disallowed[2])
    /\ Len(q_selected[1].allowed) = 1
    /\ Matches(q_path[1], q_selected[1].allowed[1])
    /\ Len(q_selected[1].allowed[1]) = Len(q_selected[1].disallowed[2])
    /\ q_verdict = Some(Returned(FALSE))

(***************************************************************************)
(* SpecMatch: one call path_matches(path, pattern), the wildcard scan one  *)
(* loop iteration per step, on every path and pattern within the bounds.   *)
(***************************************************************************)
MaxPathLen == 4
MaxPatternLen == 4

PathChars == {"a", "b"}
PatternChars == {"a", "b", "*", "$"}

IdleParse ==
    /\ content = << >>
    /\ idx = 0
    /\ pc = "idle"
    /\ domain = None
    /\ rules = EmptyRules
    /\ sitemaps = << >>
    /\ comments = << >>
    /\ current_agents = << >>

InitMatch ==
    /\ pm_path \in UNION {[1..n -> PathChars] : n \in 0..MaxPathLen}
    /\ pm_pattern \in UNION {[1..n -> PatternChars] : n \in 0..MaxPatternLen}
    /\ pm_pc = "enter"
    /\ pm_parts = << >>
    /\ pm_i = 0
    /\ pm_pos = 0
    /\ pm_result = None
    /\ IdleParse
    /\ IdleQuery
    /\ IdleFetch

\* lines 318-335: the `$` branch, the prefix branch, or the start of the scan
PathMatchesEnter ==
    /\ pm_pc = "enter"
    /\ IF ends_with(pm_pattern, <<"$">>)
       THEN /\ pm_result' = Some(Returned(MatchAnchored(pm_path, pm_pattern)))
            /\ pm_pc' = "done"
            /\ UNCHANGED <<pm_parts, pm_i, pm_pos>>
       ELSE IF ~contains(pm_pattern, STAR)
       THEN /\ pm_result' = Some(Returned(MatchPrefix(pm_path, pm_pattern)))
            /\ pm_pc' = "done"
            /\ UNCHANGED <<pm_parts, pm_i, pm_pos>>
       ELSE /\ pm_parts' = split(pm_pattern, "*")
            /\ pm_i' = 0
            /\ pm_pos' = 0
            /\ pm_pc' = "loop"
            /\ UNCHANGED pm_result
    /\ UNCHANGED <<pm_path, pm_pattern, parseVars, queryVars, fetchVars>>

\* one iteration of the loop of lines 337-357
PathMatchesIterate ==
    /\ pm_pc = "loop"
    /\ pm_i < Len(pm_parts)
    /\ LET s == ScanStep(pm_path, pm_parts, pm_i, pm_pos)
       IN  CASE s.next = "panic" ->
                  /\ pm_result' = Some(Panicked)
                  /\ pm_pc' = "done"
                  /\ UNCHANGED <<pm_i, pm_pos>>
             [] s.next = "false" ->
                  /\ pm_result' = Some(Returned(FALSE))
                  /\ pm_pc' = "done"
                  /\ UNCHANGED <<pm_i, pm_pos>>
             [] OTHER ->
                  /\ pm_i' = pm_i + 1
                  /\ pm_pos' = s.pos
                  /\ UNCHANGED <<pm_result, pm_pc>>
    /\ UNCHANGED <<pm_path, pm_pattern, pm_parts, parseVars, queryVars, fetchVars>>

\* line 359: the loop is over, `true`
PathMatchesReturn ==
    /\ pm_pc = "loop"
    /\ pm_i >= Len(pm_parts)
    /\ pm_result' = Some(Returned(TRUE))
    /\ pm_pc' = "done"
    /\ UNCHANGED <<pm_path, pm_pattern, pm_parts, pm_i, pm_pos,
                   parseVars, queryVars, fetchVars>>

NextMatch == PathMatchesEnter \/ PathMatchesIterate \/ PathMatchesReturn

SpecMatch == InitMatch /\ [][NextMatch]_vars

\* the scan never leaves the path, and the stepwise call returns what the
\* operator path_matches (as can_fetch calls it) returns
ScanInRange ==
    /\ pm_pc \in {"loop", "done"} => pm_pos <= Len(pm_path)
    /\ pm_pc = "done" => pm_result = Some(path_matches(pm_path, pm_pattern))

EndsWithDollar(pattern) == pattern # << >> /\ pattern[Len(pattern)] = "$"

HasStar(pattern) == \E k \in 1..Len(pattern) : pattern[k] = "*"

NotStar(c) == c # "*"

(***************************************************************************)
(* C8.  A pattern that ends with `$`: with the final `$` stripped, the     *)
(* result is true iff the path equals the remainder, or, when the          *)
(* remainder contains `*`, iff the path equals the remainder with every    *)
(* `*` removed.  `ab$` matches `ab` and not `aba`; `a*b$` does not match   *)
(* `aab`.                                                                  *)
(***************************************************************************)
ClaimedAnchored(path, pattern) ==
    LET remainder == SubSeq(pattern, 1, Len(pattern) - 1)
    IN  IF HasStar(remainder)
        THEN path = SelectSeq(remainder, NotStar)
        ELSE path = remainder

C8_EndAnchor ==
    (pm_pc = "done" /\ EndsWithDollar(pm_pattern)) =>
        /\ pm_result = Some(Returned(ClaimedAnchored(pm_path, pm_pattern)))
        /\ (pm_pattern = <<"a","b","$">> /\ pm_path = <<"a","b">>)
              => pm_result = Some(Returned(TRUE))
        /\ (pm_pattern = <<"a","b","$">> /\ pm_path = <<"a","b","a">>)
              => pm_result = Some(Returned(FALSE))
        /\ (pm_pattern = <<"a","*","b","$">> /\ pm_path = <<"a","a","b">>)
              => pm_result = Some(Returned(FALSE))

\* an anchored wildcard pattern accepted: the path is the pattern less its `*`
C8_Witness ==
    /\ pm_pc = "done"
    /\ pm_pattern = <<"a","*","b","$">>
    /\ pm_path = <<"a","b">>
    /\ pm_result = Some(Returned(TRUE))

(***************************************************************************)
(* C9.  A pattern that does not end with `$` matches exactly the paths of  *)
(* the form s0 g1 s1 ... gn sn r, the s being the literal segments between *)
(* the `*` of the pattern and the g and r arbitrary strings: every literal *)
(* character stands for itself, every `*` for any string, and anything may *)
(* follow.  Without `*` that is path.starts_with(pattern).                 *)
(***************************************************************************)
RECURSIVE Decomposes(_, _)
Decomposes(path, pattern) ==
    IF pattern = << >> THEN TRUE
    ELSE IF Head(pattern) = "*"
    THEN \E k \in 0..Len(path) :
            Decomposes(SubSeq(path, k + 1, Len(path)), Tail(pattern))
    ELSE /\ path # << >>
         /\ Head(path) = Head(pattern)
         /\ Decomposes(Tail(path), Tail(pattern))

MaxBodyLines == 2

URL_https == <<"h","t","t","p","s",":","/","/","h",":","8","/","r">>
URL_bare  == <<"h","/","r">>

Statuses == {200, 404, 500}

InitFetch ==
    /\ f_pc = "send"
    /\ f_url \in {URL_https, URL_bare}
    /\ f_transport \in {"ok", "connect_error", "timeout", "body_error"}
    /\ f_status \in Statuses
    /\ f_body \in UNION {[1..n -> Lines] : n \in 0..MaxBodyLines}
    /\ f_result = None
    /\ IdleParse
    /\ IdleQuery
    /\ IdleMatch

\* client.get(url).send().await?
FromUrlSend ==
    /\ f_pc = "send"
    /\ IF SendResult(f_transport, f_status).kind = "Err"
       THEN /\ f_result' = Some(SendResult(f_transport, f_status))
            /\ f_pc' = "done"
       ELSE /\ f_pc' = "text"
            /\ UNCHANGED f_result
    /\ UNCHANGED <<f_url, f_transport, f_status, f_body, parseVars, queryVars, matchVars>>

\* .text().await?, then Ok(Self::parse_with_domain(&content, Some(domain)))
FromUrlText ==
    /\ f_pc = "text"
    /\ f_result' = IF TextResult(f_transport, f_body).kind = "Err"
                   THEN Some(TextResult(f_transport, f_body))
                   ELSE Some(FromUrlParse(f_url, TextResult(f_transport, f_body).value))
    /\ f_pc' = "done"
    /\ UNCHANGED <<f_url, f_transport, f_status, f_body, parseVars, queryVars, matchVars>>

NextFetch == FromUrlSend \/ FromUrlText

SpecFetch == InitFetch /\ [][NextFetch]_vars

(***************************************************************************)
(* C7.  Every fetch failure is an error for the caller: when the transport *)
(* fails or times out, or the response has a non-2xx status, from_url      *)
(* returns Err and no RobotsTxt.                                           *)
(***************************************************************************)
FetchFailed == f_transport # "ok" \/ f_status \notin 200..299

C7_FailureIsError ==
    (f_pc = "done" /\ FetchFailed) => f_result[1].kind = "Err"

(***************************************************************************)
(* SpecNoise: RobotsTxt::parse on inputs that mix directive lines with     *)
(* lines that carry no recognized directive: a blank line, a line without  *)
(* a colon, an unknown directive, and comment lines (one of them indented  *)
(* and with the text of a directive as its body).                          *)
(***************************************************************************)
MaxNoiseLines == 4

NoiseLines ==
    {LINE_ua_star, LINE_ua_G, LINE_dis_a, LINE_sitemap,
     LINE_blank, LINE_nocolon, LINE_unknown, LINE_comment, LINE_comment_dir}

InitNoise ==
    /\ content \in UNION {[1..n -> NoiseLines] : n \in 0..MaxNoiseLines}
    /\ idx = 0
    /\ pc = "parse"
    /\ domain = None
    /\ rules = EmptyRules
    /\ sitemaps = << >>
    /\ comments = << >>
    /\ current_agents = << >>
    /\ IdleQuery
    /\ IdleMatch
    /\ IdleFetch

NextNoise == ParseLine \/ ParseReturn

SpecNoise == InitNoise /\ [][NextNoise]_vars

(***************************************************************************)
(* C11.  A blank line, a line without a colon and a line with an unknown   *)
(* directive change neither the rules, the sitemaps, the comments nor the  *)
(* active-agent list; a comment line only appends its trimmed body to      *)
(* comments.  So after any number of lines the rules, the sitemaps and the *)
(* active agents are those of the same lines with these lines removed,     *)
(* and comments holds the bodies of the comment lines read, in order.      *)
(***************************************************************************)
IsNoiseLine(l) == LineKind(l) \in {"comment", "other"}

\* the first k lines less the lines that carry no recognized directive
RECURSIVE WithoutNoise(_, _)
WithoutNoise(lines, k) ==
    IF k = 0 THEN << >>
    ELSE IF IsNoiseLine(lines[k]) THEN WithoutNoise(lines, k - 1)
    ELSE Append(WithoutNoise(lines, k - 1), lines[k])

RECURSIVE CommentBodies(_, _)
CommentBodies(lines, k) ==
    IF k = 0 THEN << >>
    ELSE IF LineKind(lines[k]) = "comment"
    THEN Append(CommentBodies(lines, k - 1), LineValue(lines[k]))
    ELSE CommentBodies(lines, k - 1)

C11_State ==
    pc \in {"parse", "done"} =>
        LET st == ParseFrom(NewParseState, WithoutNoise(content, idx), 1)
        IN  /\ rules = st.rules
            /\ sitemaps = st.sitemaps
            /\ current_agents = st.current_agents
            /\ st.comments = << >>
            /\ comments = CommentBodies(content, idx)

C11_Step ==
    (AtLine /\ IsNoiseLine(content[idx + 1])) =>
        /\ rules' = rules
        /\ sitemaps' = sitemaps
        /\ current_agents' = current_agents
        /\ comments' = IF LineKind(content[idx + 1]) = "comment"
                       THEN Append(comments, LineValue(content[idx + 1]))
                       ELSE comments

C11_NoiseIgnored == []C11_State /\ [][C11_Step]_vars

\* a blank line between two User-agent lines and a comment line before their
\* Disallow line: one group, and the Disallow reaches both agents
C11_Witness ==
    /\ idx = 4
    /\ content = <<LINE_ua_star, LINE_blank, LINE_ua_G, LINE_dis_a>>
          \/ content = <<LINE_ua_star, LINE_ua_G, LINE_comment_dir, LINE_dis_a>>
          \/ content = <<LINE_ua_star, LINE_nocolon, LINE_unknown, LINE_dis_a>>
    /\ \A a \in DOMAIN rules : rules[a].disallowed = <<LineValue(LINE_dis_a)>>
    /\ DOMAIN rules # {}
    /\ comments = CommentBodies(content, 4)

====
